---- MODULE Spec2Model ----
(***************************************************************************)
(* A model of the two deployment scripts of the Spark keepers repository:  *)
(*   scripts/deploy.ts     the reconciler: one task per config file, named *)
(*                         "<config name> <hash>", unmatched tasks         *)
(*                         cancelled at the end;                           *)
(*   scripts/deployAll.ts  the all-in-one deployment: one deployment logic *)
(*                         per keeper type, skipped when the IPFS address  *)
(*                         recorded in deployments.json is the current one.*)
(* The automation platform (task listing, creation, cancellation, secrets) *)
(* is the set `tasks`; a transaction takes effect when it is confirmed.    *)
(* One behaviour follows one of the two scripts (variable `script`)        *)
(* through a bounded number of runs, with edits of the local files between *)
(* the runs.                                                               *)
(***************************************************************************)
EXTENDS FiniteSets, Integers, Sequences, TLC

VARIABLES
    script,          \* which script the operator runs: "deploy" or "deployAll"
    \* ---- the local files and the process environment (inputs)
    files,           \* scripts/configs: keeper -> "nodir" or [file name -> raw bytes]
    ipfsFile,        \* scripts/pre-deployments.json: keeper -> content address or NoCid
    gelatoFile,      \* scripts/deployments.json: keeper -> content address or NoCid
    procEnv,         \* names of the environment variables that are defined
    cred,            \* credential settings: key, keystore path, password path
    \* ---- the automation platform
    tasks,           \* the active tasks: [taskId, name, domain, cid, secrets]
    nextId,          \* the next task identifier the platform hands out
    \* ---- the running script
    pc,              \* position of the script
    oldTasks,        \* deploy.ts: the working set, in insertion order
    ipfsDeployments, \* what the run read from pre-deployments.json
    gelatoDeployments, \* deployAll.ts: what the run holds of deployments.json
    dIdx, kIdx, fIdx, cIdx, \* loop positions: domain, keeper, file, cancellation
    cur,             \* the task being created, or the list being retired
    now,             \* deployAll.ts: the date the run started on
    log,             \* what the run did so far, in order
    \* ---- history
    runs,            \* runs started so far
    edited,          \* a local file or a variable changed since the last run ended
    sameAsPrev,      \* the run follows a completed run with nothing changed between
    listed,          \* deploy.ts: the tasks the run's listing returned
    deployedFor,     \* deploy.ts: config -> task created for it by a completed run
    failedRun,       \* where an SDK call ended the run before this one, if one did
    \* ---- the freshness keeper (deployAll.ts lines 395-509)
    optimismStyleForwarderAddresses, \* the optimism-style consumers, in order
    arbitrumStyleForwarderAddresses, \* the arbitrum-style consumers, in order
    potData,         \* consumer address -> what getLastSeenPotData returns
    currentDsr,      \* pot.dsr()
    latestTimestamp, \* timestamp of the latest block
    maxDelta,        \* userArgs.maxDelta
    sendSlackMessages, \* userArgs.sendSlackMessages
    moves,           \* changes of the chain since the handler started
    locals,          \* the handler's locals between two awaits
    onRunResult      \* what the handler returned and sent

vars == <<script, files, ipfsFile, gelatoFile, procEnv, cred, tasks, nextId, pc,
          oldTasks, ipfsDeployments, gelatoDeployments, dIdx, kIdx, fIdx, cIdx,
          cur, now, log, runs, edited, sameAsPrev, listed, deployedFor, failedRun,
          optimismStyleForwarderAddresses, arbitrumStyleForwarderAddresses, potData,
          currentDsr, latestTimestamp, maxDelta, sendSlackMessages, moves, locals,
          onRunResult>>

envVars == <<files, ipfsFile, procEnv, cred>>
runVars == <<oldTasks, ipfsDeployments, gelatoDeployments, dIdx, kIdx, fIdx, cIdx, cur, now>>
histVars == <<sameAsPrev, listed, deployedFor, failedRun>>
deployVars == <<script, envVars, gelatoFile, tasks, nextId, runVars, log, runs, edited,
                histVars>>
userArgs == <<optimismStyleForwarderAddresses, arbitrumStyleForwarderAddresses, maxDelta,
              sendSlackMessages>>
chainVars == <<potData, currentDsr, latestTimestamp, moves>>
keeperVars == <<userArgs, chainVars, locals, onRunResult>>

(***************************************************************************)
(* Bounds of the model.                                                    *)
(***************************************************************************)
MaxRuns == 2

NoCid == "undefined"

(***************************************************************************)
(* Strings are sequences of characters; slice(0, -n) drops the last n.     *)
(***************************************************************************)
SliceEnd(s, n) == IF Len(s) > n THEN SubSeq(s, 1, Len(s) - n) ELSE <<>>

RECURSIVE Includes(_, _)
Includes(seq, x) ==
    IF seq = <<>> THEN FALSE
    ELSE IF Head(seq) = x THEN TRUE ELSE Includes(Tail(seq), x)

(***************************************************************************)
(* deploy.ts: constants and inputs.                                        *)
(***************************************************************************)
domains == <<"mainnet", "gnosis">>
triggerTypeNames == <<"block", "cron", "event", "time">>

\* listDirectories(w3fImplementationsPath): the keeper types, in directory order
w3fNames == <<"cap-automator", "d3m-ticker">>

\* the config file names a keeper's directory may hold, in directory order
JsonFile(c) == <<c, ".", "j", "s", "o", "n">>
FileNames == <<JsonFile("a"), JsonFile("b")>>

Cids == {"QmA", "QmB"}

\* The raw bytes of a config file: what JSON.parse reads from them, and `pad`
\* for the bytes that parse to the same thing (white space).
RawConfig(d, t, abi, sec, pad) ==
    [domain |-> d, trigger |-> [type |-> t, abiFound |-> abi], secrets |-> sec, pad |-> pad]

RawTime == RawConfig("mainnet", "time", TRUE, {"SLACK_WEBHOOK_URL"}, 0)
RawTimePad == RawConfig("mainnet", "time", TRUE, {"SLACK_WEBHOOK_URL"}, 1)
RawEvent == RawConfig("gnosis", "event", TRUE, {}, 0)
RawBadDomain == RawConfig("arbitrum", "cron", TRUE, {"ETHERSCAN_API_KEY"}, 0)
RawBadTrigger == RawConfig("mainnet", "webhook", TRUE, {}, 0)
RawBadAbi == RawConfig("mainnet", "event", FALSE, {}, 0)
RawNoEnv == RawConfig("mainnet", "block", TRUE, {"ETHERSCAN_API_KEY"}, 0)

Raws == {RawTime, RawTimePad, RawEvent, RawBadDomain, RawBadTrigger, RawBadAbi, RawNoEnv}

\* JSON.parse(rawConfig) as DeploymentConfig
ParseConfig(raw) == [domain |-> raw.domain, trigger |-> raw.trigger, secrets |-> raw.secrets]

NoFile == [absent |-> TRUE]
NoName == <<>>
NoCfg == <<>>

\* listDirectories(w3fConfigsPath)
w3fConfigs == {k \in DOMAIN files : files[k].dir}

\* listJsonFiles(path.join(w3fConfigsPath, w3fName))
listJsonFiles(k) == SelectSeq(FileNames, LAMBDA f : files[k].cfg[f] # NoFile)

(***************************************************************************)
(* deploy.ts: helper functions.                                            *)
(***************************************************************************)
\* utils.keccak256: a digest without collisions
keccak256(bytes) == <<"keccak256", bytes>>

getBufferFromString(str) == [utf8 |-> str]

\* the slip of hashing the content address alone
createHashCodeOnly(rawConfig, ipfsDeployment) ==
    keccak256(getBufferFromString(keccak256(getBufferFromString(ipfsDeployment))))

createHash(rawConfig, ipfsDeployment) ==
    LET configHash == keccak256(rawConfig)
        ipfsDeploymentHash == keccak256(getBufferFromString(ipfsDeployment))
    IN  keccak256(getBufferFromString(configHash \o ipfsDeploymentHash))

\* configFileName.slice(0, -5)
ConfigName(configFileName) == SliceEnd(configFileName, 5)

\* `${configName} ${hash}`
DeploymentName(configFileName, rawConfig, ipfsDeployment) ==
    ConfigName(configFileName) \o <<" ">> \o createHash(rawConfig, ipfsDeployment)

\* the slip of leaving the domain unchecked
DomainUnchecked(config) == TRUE

DomainSupported(config) == Includes(domains, config.domain)

TriggerSupported(config) == Includes(triggerTypeNames, config.trigger.type)

Thrown == [type |-> "throw"]

createTriggerConfig(trigger) ==
    IF trigger.type = "block" THEN [type |-> "BLOCK"]
    ELSE IF trigger.type = "cron" THEN [type |-> "CRON"]
    ELSE IF trigger.type = "event"
         THEN IF trigger.abiFound THEN [type |-> "EVENT"] ELSE Thrown
    ELSE IF trigger.type = "time" THEN [type |-> "TIME"]
    ELSE Thrown

\* the reduce over Object.entries(config.secrets): a value per key, or a throw
\* the slip of passing undefined values on
SecretsUnchecked(config, env) == TRUE

SecretsResolved(config, env) == \A envVarName \in config.secrets : envVarName \in env

\* envPrivateKey || (keystorePath && passwordPath && retrievePrivateKeyFromKeystore(..))
ReadsKeystore(c) == ~c.privateKey /\ c.keystorePath /\ c.passwordPath

\* the slip of going on without a password path
KeyResolutionLax(c) ==
    IF c.privateKey \/ c.keystorePath THEN "key" ELSE "missing"

KeyResolution(c) ==
    IF c.privateKey THEN "key"
    ELSE IF c.keystorePath /\ c.passwordPath
         THEN IF c.keystoreGood THEN "key" ELSE "throw"
    ELSE "missing"

(***************************************************************************)
(* The working set oldTasks: a JavaScript object keyed by task name, which *)
(* keeps its keys in insertion order.                                      *)
(***************************************************************************)
OldHas(old, name) == \E i \in 1..Len(old) : old[i].name = name

OldPut(old, name, taskId, domain) ==
    IF OldHas(old, name)
    THEN [i \in 1..Len(old) |->
            IF old[i].name = name
            THEN [name |-> name, taskId |-> taskId, domain |-> domain] ELSE old[i]]
    ELSE Append(old, [name |-> name, taskId |-> taskId, domain |-> domain])

\* the slip of leaving a matched entry in the working set
OldDeleteKept(old, name) == old

\* delete oldTasks[deploymentName]
OldDelete(old, name) == SelectSeq(old, LAMBDA e : e.name # name)

\* for (const task of tasks) oldTasks[task.name] = { taskId: task.taskId, domain }
RECURSIVE IndexTasks(_, _, _)
IndexTasks(old, list, domain) ==
    IF list = <<>> THEN old
    ELSE IndexTasks(OldPut(old, Head(list).name, Head(list).taskId, domain), Tail(list), domain)

\* getActiveTasks(): the active tasks of a network, in an order the platform chooses
ActiveOn(domain) == {t \in tasks : t.domain = domain}
RECURSIVE Orderings(_)
Orderings(S) ==
    IF S = {} THEN {<<>>}
    ELSE UNION {{<<x>> \o rest : rest \in Orderings(S \ {x})} : x \in S}

(***************************************************************************)
(* The log of a run.                                                       *)
(***************************************************************************)
Ev(op, domain, id, name, cfg) ==
    [op |-> op, domain |-> domain, id |-> id, name |-> name, cfg |-> cfg]

Idle == {"idle", "done", "aborted"}

\* where a run may start: also after a run that an SDK call ended; such a run is
\* repeated before anything is changed
Stopped == Idle \cup {"failed"}

Slots == {<<k, f>> : k \in {w3fNames[i] : i \in 1..Len(w3fNames)},
                     f \in {FileNames[i] : i \in 1..Len(FileNames)}}
NoTask == [name |-> NoName, id |-> 0, raw |-> NoFile, cid |-> NoCid]

\* what a completed run leaves known: the task it created for a config, with the
\* bytes and the address it was created from, until a completed run cancels it
Absorb(dep, lg) ==
    [s \in Slots |->
        IF \E i \in 1..Len(lg) : lg[i].op = "confirmed" /\ lg[i].cfg = s
        THEN LET i == CHOOSE i \in 1..Len(lg) : lg[i].op = "confirmed" /\ lg[i].cfg = s
             IN  [name |-> lg[i].name, id |-> lg[i].id,
                  raw |-> files[s[1]].cfg[s[2]], cid |-> ipfsDeployments[s[1]]]
        ELSE IF \E i \in 1..Len(lg) : lg[i].op = "cancelled" /\ lg[i].id = dep[s].id
             THEN NoTask
        ELSE dep[s]]

(***************************************************************************)
(* deploy.ts: the run.                                                     *)
(***************************************************************************)
\* the file loop moves to the next file, or the keeper loop to the next keeper
NextConfig ==
    IF fIdx < Len(listJsonFiles(w3fNames[kIdx]))
    THEN /\ pc' = "config" /\ fIdx' = fIdx + 1 /\ kIdx' = kIdx
    ELSE /\ pc' = "keeper" /\ fIdx' = 1 /\ kIdx' = kIdx + 1

\* history: the awaited call that ended the last run, the keeper type and the task
\* it was at, and what that run had recorded in deployments.json
NoCur == [name |-> NoName, domain |-> "", cid |-> NoCid, cfg |-> NoCfg, id |-> 0]
NoFailure == [at |-> "", kIdx |-> 0, cur |-> NoCur, recorded |-> {}]
FailedAt(p, lg, k, c) ==
    IF p = "failed"
    THEN [at |-> lg[Len(lg)].domain, kIdx |-> k, cur |-> c,
          recorded |-> {lg[i].id : i \in {x \in 1..Len(lg) : lg[x].op = "record"}}]
    ELSE NoFailure

\* lines 130-170: the script starts, resolves the deployer key, builds the SDKs and
\* reads the directories and pre-deployments.json
StartDeploy ==
    /\ script = "deploy" /\ pc \in Stopped /\ runs < MaxRuns
    /\ runs' = runs + 1
    /\ sameAsPrev' = (pc = "done" /\ ~edited)
    /\ failedRun' = FailedAt(pc, log, kIdx, cur)
    /\ edited' = FALSE
    /\ listed' = {}
    /\ LET reads == IF ReadsKeystore(cred)
                    THEN <<Ev("readKeystore", "", 0, NoName, NoCfg)>> ELSE <<>>
       IN  IF KeyResolution(cred) = "key"
           THEN /\ pc' = "list"
                /\ log' = reads
           ELSE /\ pc' = "aborted"
                /\ log' = Append(reads, Ev("error", KeyResolution(cred), 0, NoName, NoCfg))
    /\ ipfsDeployments' = ipfsFile
    /\ oldTasks' = <<>>
    /\ dIdx' = 1 /\ kIdx' = 1 /\ fIdx' = 1 /\ cIdx' = 1
    /\ UNCHANGED <<keeperVars, script, envVars, gelatoFile, tasks, nextId, gelatoDeployments, cur, now,
                   deployedFor>>

\* lines 171-177: one network's active tasks are fetched and indexed by name
ListTasks ==
    /\ script = "deploy" /\ pc = "list"
    /\ \E order \in Orderings(ActiveOn(domains[dIdx])) :
          /\ oldTasks' = IndexTasks(oldTasks, order, domains[dIdx])
          /\ listed' = listed \cup ActiveOn(domains[dIdx])
    /\ log' = Append(log, Ev("list", domains[dIdx], 0, NoName, NoCfg))
    /\ IF dIdx < Len(domains)
       THEN /\ dIdx' = dIdx + 1 /\ pc' = pc
       ELSE /\ dIdx' = dIdx /\ pc' = "keeper"
    /\ UNCHANGED <<keeperVars, script, envVars, gelatoFile, tasks, nextId, ipfsDeployments,
                   gelatoDeployments, kIdx, fIdx, cIdx, cur, now, runs, edited,
                   sameAsPrev, deployedFor, failedRun>>

\* lines 179-195 and the end of the keeper loop
KeeperSkipped(w3fName) ==
    \/ w3fName \notin w3fConfigs
    \/ ipfsDeployments[w3fName] = NoCid
    \/ Len(listJsonFiles(w3fName)) = 0

NextKeeper ==
    /\ script = "deploy" /\ pc = "keeper"
    /\ IF kIdx > Len(w3fNames)
       THEN /\ pc' = "cancel" /\ kIdx' = kIdx /\ log' = log
       ELSE IF KeeperSkipped(w3fNames[kIdx])
            THEN /\ pc' = pc /\ kIdx' = kIdx + 1
                 /\ log' = Append(log, Ev("noKeeper", "", kIdx, NoName, NoCfg))
            ELSE /\ pc' = "config" /\ kIdx' = kIdx /\ log' = log
    /\ fIdx' = 1 /\ cIdx' = 1
    /\ UNCHANGED <<keeperVars, script, envVars, gelatoFile, tasks, nextId, oldTasks, ipfsDeployments,
                   gelatoDeployments, dIdx, cur, now, runs, edited, histVars>>

\* lines 197-229: one config file is read, validated, named, matched against the
\* working set, and made ready for creation
CurKeeper == w3fNames[kIdx]
CurFile == listJsonFiles(CurKeeper)[fIdx]
CurRaw == files[CurKeeper].cfg[CurFile]
CurConfig == ParseConfig(CurRaw)
CurName == DeploymentName(CurFile, CurRaw, ipfsDeployments[CurKeeper])
CurCfg == <<CurKeeper, CurFile>>

\* the slip of never finding a task already active
AlreadyActiveNever(old, deploymentName) == FALSE

AlreadyActive(old, deploymentName) == OldHas(old, deploymentName)

ProcessConfig ==
    /\ script = "deploy" /\ pc = "config"
    /\ IF ~DomainSupported(CurConfig)
       THEN /\ log' = Append(log, Ev("skipDomain", CurConfig.domain, 0, NoName, CurCfg))
            /\ NextConfig
            /\ UNCHANGED <<oldTasks, cur>>
       ELSE IF ~TriggerSupported(CurConfig)
       THEN /\ log' = Append(log, Ev("skipTrigger", CurConfig.domain, 0, NoName, CurCfg))
            /\ NextConfig
            /\ UNCHANGED <<oldTasks, cur>>
       ELSE IF AlreadyActive(oldTasks, CurName)
       THEN /\ log' = Append(log, Ev("active", CurConfig.domain, 0, CurName, CurCfg))
            /\ oldTasks' = OldDelete(oldTasks, CurName)
            /\ NextConfig
            /\ UNCHANGED cur
       ELSE IF createTriggerConfig(CurConfig.trigger) = Thrown
       THEN /\ log' = Append(log, Ev("error", "trigger", 0, CurName, CurCfg))
            /\ pc' = "aborted"
            /\ UNCHANGED <<oldTasks, cur, kIdx, fIdx>>
       ELSE IF ~SecretsResolved(CurConfig, procEnv)
       THEN /\ log' = Append(log, Ev("error", "secret", 0, CurName, CurCfg))
            /\ pc' = "aborted"
            /\ UNCHANGED <<oldTasks, cur, kIdx, fIdx>>
       ELSE /\ log' = Append(log, Ev("pause", CurConfig.domain, 0, CurName, CurCfg))
            /\ pc' = "pause"
            /\ cur' = [name |-> CurName, domain |-> CurConfig.domain,
                       cid |-> ipfsDeployments[CurKeeper], cfg |-> CurCfg, id |-> 0]
            /\ UNCHANGED <<oldTasks, kIdx, fIdx>>
    /\ UNCHANGED <<keeperVars, script, envVars, gelatoFile, tasks, nextId, ipfsDeployments,
                   gelatoDeployments, dIdx, cIdx, now, runs, edited, histVars>>

\* line 230: ENTER is pressed
Confirm ==
    /\ script = "deploy" /\ pc = "pause"
    /\ pc' = "create"
    /\ log' = Append(log, Ev("enter", "", 0, NoName, NoCfg))
    /\ UNCHANGED <<keeperVars, script, envVars, gelatoFile, tasks, nextId, runVars, runs, edited, histVars>>

\* the slip of not awaiting tx.wait() before the secrets are set
CreateTaskUnawaited ==
    /\ script = "deploy" /\ pc = "create"
    /\ pc' = "secrets"
    /\ cur' = [cur EXCEPT !.id = nextId]
    /\ nextId' = nextId + 1
    /\ log' = Append(log, Ev("create", cur.domain, nextId, cur.name, cur.cfg))
    /\ UNCHANGED <<keeperVars, script, envVars, gelatoFile, tasks, oldTasks, ipfsDeployments,
                   gelatoDeployments, dIdx, kIdx, fIdx, cIdx, now, runs, edited, histVars>>

\* lines 231-236: createBatchExecTask answers with the task's identifier and the
\* transaction
CreateTask ==
    /\ script = "deploy" /\ pc = "create"
    /\ pc' = "createWait"
    /\ cur' = [cur EXCEPT !.id = nextId]
    /\ nextId' = nextId + 1
    /\ log' = Append(log, Ev("create", cur.domain, nextId, cur.name, cur.cfg))
    /\ UNCHANGED <<keeperVars, script, envVars, gelatoFile, tasks, oldTasks, ipfsDeployments,
                   gelatoDeployments, dIdx, kIdx, fIdx, cIdx, now, runs, edited, histVars>>

\* line 237: tx.wait() returns, the task is active
CreateConfirmed ==
    /\ script = "deploy" /\ pc = "createWait"
    /\ pc' = "secrets"
    /\ tasks' = tasks \cup {[taskId |-> cur.id, name |-> cur.name, domain |-> cur.domain,
                             cid |-> cur.cid, secrets |-> FALSE]}
    /\ log' = Append(log, Ev("confirmed", cur.domain, cur.id, cur.name, cur.cfg))
    /\ UNCHANGED <<keeperVars, script, envVars, gelatoFile, nextId, runVars, runs, edited, histVars>>

\* line 238: the secrets are set against the new task
SetSecrets ==
    /\ script = "deploy" /\ pc = "secrets"
    /\ tasks' = {IF t.taskId = cur.id /\ t.domain = cur.domain
                 THEN [t EXCEPT !.secrets = TRUE] ELSE t : t \in tasks}
    /\ log' = Append(log, Ev("secrets", cur.domain, cur.id, cur.name, cur.cfg))
    /\ NextConfig
    /\ UNCHANGED <<keeperVars, script, envVars, gelatoFile, nextId, oldTasks, ipfsDeployments,
                   gelatoDeployments, dIdx, cIdx, cur, now, runs, edited, histVars>>

\* the slip of sending the next cancellation without awaiting the last
CancelTaskUnawaited ==
    /\ script = "deploy" /\ pc = "cancel" /\ cIdx <= Len(oldTasks)
    /\ pc' = "cancel"
    /\ cIdx' = cIdx + 1
    /\ log' = Append(log, Ev("cancel", oldTasks[cIdx].domain, oldTasks[cIdx].taskId,
                             oldTasks[cIdx].name, NoCfg))
    /\ UNCHANGED <<keeperVars, script, envVars, gelatoFile, tasks, nextId, oldTasks,
                   ipfsDeployments, gelatoDeployments, dIdx, kIdx, fIdx, cur, now, runs,
                   edited, histVars>>

\* lines 242-244: the cancel-task transaction of the next remaining entry is sent
CancelTask ==
    /\ script = "deploy" /\ pc = "cancel" /\ cIdx <= Len(oldTasks)
    /\ pc' = "cancelWait"
    /\ log' = Append(log, Ev("cancel", oldTasks[cIdx].domain, oldTasks[cIdx].taskId,
                             oldTasks[cIdx].name, NoCfg))
    /\ UNCHANGED <<keeperVars, script, envVars, gelatoFile, tasks, nextId, runVars, runs, edited, histVars>>

\* line 245: tx.wait() returns, the task is no longer active
CancelConfirmed ==
    /\ script = "deploy" /\ pc = "cancelWait"
    /\ pc' = "cancel"
    /\ tasks' = {t \in tasks :
                   ~(t.taskId = oldTasks[cIdx].taskId /\ t.domain = oldTasks[cIdx].domain)}
    /\ log' = Append(log, Ev("cancelled", oldTasks[cIdx].domain, oldTasks[cIdx].taskId,
                             oldTasks[cIdx].name, NoCfg))
    /\ cIdx' = cIdx + 1
    /\ UNCHANGED <<keeperVars, script, envVars, gelatoFile, nextId, oldTasks, ipfsDeployments,
                   gelatoDeployments, dIdx, kIdx, fIdx, cur, now, runs, edited, histVars>>

\* lines 172 and 231-245: an awaited call of the SDK rejects (the platform does not
\* answer, the transaction reverts); nothing catches it, the run ends there.  At
\* "list" the call that rejects is getActiveTasks of the network at hand, at
\* "create" createBatchExecTask, at "cancel" cancelTask of the next task left in
\* the working set
AwaitedCall == {"list", "create", "createWait", "secrets", "cancel", "cancelWait"}

TxFails ==
    /\ script = "deploy" /\ pc \in AwaitedCall
    /\ pc = "cancel" => cIdx <= Len(oldTasks)
    /\ pc' = "failed"
    /\ log' = IF pc = "list"
              THEN log \o <<Ev("list", domains[dIdx], 0, NoName, NoCfg),
                            Ev("failed", pc, 0, NoName, NoCfg)>>
              ELSE Append(log, Ev("failed", pc, 0, NoName, NoCfg))
    /\ UNCHANGED <<keeperVars, script, envVars, gelatoFile, tasks, nextId, runVars, runs, edited,
                   histVars>>

\* line 248: the run ends
Finish ==
    /\ script = "deploy" /\ pc = "cancel" /\ cIdx > Len(oldTasks)
    /\ pc' = "done"
    /\ log' = Append(log, Ev("close", "", 0, NoName, NoCfg))
    /\ deployedFor' = Absorb(deployedFor, log)
    /\ UNCHANGED <<keeperVars, script, envVars, gelatoFile, tasks, nextId, runVars, runs, edited,
                   sameAsPrev, listed, failedRun>>

(***************************************************************************)
(* Between two runs the operator may change one local file or the defined  *)
(* environment variables.                                                  *)
(***************************************************************************)
\* the bytes a config file is rewritten to, and the files that are rewritten
EditRaws == {RawTime, RawTimePad, RawEvent, RawBadDomain, RawNoEnv, NoFile}
EditSlots == {<<"cap-automator", JsonFile("a")>>, <<"cap-automator", JsonFile("b")>>,
              <<"d3m-ticker", JsonFile("a")>>}

EditConfig ==
    /\ script = "deploy" /\ pc \in Idle /\ ~edited /\ runs < MaxRuns
    /\ \E s \in EditSlots, raw \in EditRaws :
          /\ files[s[1]].dir
          /\ files[s[1]].cfg[s[2]] # raw
          /\ files' = [files EXCEPT ![s[1]].cfg[s[2]] = raw]
    /\ edited' = TRUE
    /\ UNCHANGED <<keeperVars, script, ipfsFile, gelatoFile, procEnv, cred, tasks, nextId, pc, runVars,
                   log, runs, histVars>>

\* yarn gelato:ipfs rewrites pre-deployments.json
EditIpfs ==
    /\ script = "deploy" /\ pc \in Idle /\ ~edited /\ runs < MaxRuns
    /\ \E c1 \in Cids \cup {NoCid}, c2 \in Cids :
          /\ ("cap-automator" :> c1 @@ "d3m-ticker" :> c2) # ipfsFile
          /\ ipfsFile' = ("cap-automator" :> c1 @@ "d3m-ticker" :> c2)
    /\ edited' = TRUE
    /\ UNCHANGED <<keeperVars, script, files, gelatoFile, procEnv, cred, tasks, nextId, pc, runVars,
                   log, runs, histVars>>

EditEnv ==
    /\ script = "deploy" /\ pc \in Idle /\ ~edited /\ runs < MaxRuns
    /\ \E e \in SUBSET {"SLACK_WEBHOOK_URL"} :
          /\ e # procEnv
          /\ procEnv' = e
    /\ edited' = TRUE
    /\ UNCHANGED <<keeperVars, script, files, ipfsFile, gelatoFile, cred, tasks, nextId, pc, runVars,
                   log, runs, histVars>>

(***************************************************************************)
(* deployAll.ts: constants and inputs.                                     *)
(***************************************************************************)
\* the task names of the deployment logics, as sequences of characters
CapAutomator ==
    <<"C", "a", "p", " ", "A", "u", "t", "o", "m", "a", "t", "o", "r">>
D3MTicker ==
    <<"D", "3", "M", " ", "T", "i", "c", "k", "e", "r">>
GovernanceExecutorGnosis ==
    <<"G", "o", "v", "e", "r", "n", "a", "n", "c", "e", " ", "E", "x", "e", "c", "u",
        "t", "o", "r", " ", "[", "G", "n", "o", "s", "i", "s", "]">>
KillSwitchWbtcBtc ==
    <<"K", "i", "l", "l", " ", "S", "w", "i", "t", "c", "h", " ", "[", "W", "B", "T",
        "C", "-", "B", "T", "C", "]">>
KillSwitchStethEth ==
    <<"K", "i", "l", "l", " ", "S", "w", "i", "t", "c", "h", " ", "[", "s", "t", "E",
        "T", "H", "-", "E", "T", "H", "]">>
KillSwitchTimeBased ==
    <<"K", "i", "l", "l", " ", "S", "w", "i", "t", "c", "h", " ", "[", "T", "i", "m",
        "e", " ", "B", "a", "s", "e", "d", "]">>
MetaMorphoCapUpdater ==
    <<"M", "e", "t", "a", " ", "M", "o", "r", "p", "h", "o", " ", "C", "a", "p", " ",
        "U", "p", "d", "a", "t", "e", "r">>
XChainEventBased ==
    <<"X", "C", "h", "a", "i", "n", " ", "O", "r", "a", "c", "l", "e", " ", "T", "i",
        "c", "k", "e", "r", " ", "[", "E", "v", "e", "n", "t", " ", "B", "a", "s",
        "e", "d", "]">>
XChainTimeBased ==
    <<"X", "C", "h", "a", "i", "n", " ", "O", "r", "a", "c", "l", "e", " ", "T", "i",
        "c", "k", "e", "r", " ", "[", "T", "i", "m", "e", " ", "B", "a", "s", "e",
        "d", "]">>

\* the deploy(..) calls of the script, in order: keeper type, network, taskNames
Keeper(w3fName, domain, taskNames) ==
    [w3fName |-> w3fName, domain |-> domain, taskNames |-> taskNames]

deployCalls ==
    << Keeper("cap-automator", "mainnet", <<CapAutomator>>),
       Keeper("d3m-ticker", "mainnet", <<D3MTicker>>),
       Keeper("governance-executor", "gnosis", <<GovernanceExecutorGnosis>>),
       Keeper("kill-switch", "mainnet",
              <<KillSwitchWbtcBtc, KillSwitchStethEth, KillSwitchTimeBased>>),
       Keeper("meta-morpho", "mainnet", <<MetaMorphoCapUpdater>>),
       Keeper("xchain-oracle-ticker", "mainnet", <<XChainEventBased, XChainTimeBased>>) >>

AllKeepers == {deployCalls[i].w3fName : i \in 1..Len(deployCalls)}

requiredSettings ==
    <<"GELATO_KEEPERS_SLACK_WEBHOOK_URL", "GELATO_KEEPERS_ETHERSCAN_API_KEY",
      "MAINNET_RPC_URL", "GNOSIS_CHAIN_RPC_URL">>

\* new Date().toISOString() of the day the n-th run starts on
Digit(n) == <<"0", "1", "2", "3", "4", "5", "6", "7", "8", "9">>[(n % 10) + 1]
IsoDate(n) ==
    <<"2", "0", "2", "4", "-", "0", "7", "-", "0", Digit(n), "T", "1", "2", ":", "3", "9",
      ":", "4", "1", ".", "0", "0", "0", "Z">>

\* ` <${deploymentDate.slice(0, 10)} ${deploymentDate.slice(11, 19)}>`
deploymentTag(deploymentDate) ==
    <<" ", "<">> \o SubSeq(deploymentDate, 1, 10) \o <<" ">>
        \o SubSeq(deploymentDate, 12, 19) \o <<">">>

\* the slip of cutting one character too few
BaseNameShort(name, tag) == SliceEnd(name, Len(tag) - 1)

\* task.name.slice(0, -deploymentTag.length)
BaseName(name, tag) == SliceEnd(name, Len(tag))

\* activeTasks.filter((task) => taskNames.includes(..)); the platform chooses the
\* order of the list
tasksToRetire(activeTasks, taskNames, tag) ==
    {task \in activeTasks : Includes(taskNames, BaseName(task.name, tag))}

\* the slip of comparing nothing
SkipUnpublishedOnly(ipfsDeployment, gelatoDeployment) == ipfsDeployment = NoCid

\* lines 90-94 of deploy(): the deployment logic is skipped
SkipDeployment(ipfsDeployment, gelatoDeployment) ==
    \/ ipfsDeployment = NoCid
    \/ ipfsDeployment = gelatoDeployment

\* lines 29-58: the keystore is read and decrypted, the settings are checked
SetupResult(c, env) ==
    IF ~(c.keystorePath /\ c.keystoreGood) THEN "throw"
    ELSE IF \E i \in 1..Len(requiredSettings) : requiredSettings[i] \notin env THEN "exit"
    ELSE "ok"

(***************************************************************************)
(* deployAll.ts: the run.                                                  *)
(***************************************************************************)
CurCall == deployCalls[kIdx]
CurTag == deploymentTag(now)

\* lines 29-79: the script starts
StartAll ==
    /\ script = "deployAll" /\ pc \in Stopped /\ runs < MaxRuns
    /\ runs' = runs + 1
    /\ sameAsPrev' = (pc = "done" /\ ~edited)
    /\ failedRun' = FailedAt(pc, log, kIdx, cur)
    /\ edited' = FALSE
    /\ now' = IsoDate(runs + 1)
    /\ IF SetupResult(cred, procEnv) = "ok"
       THEN /\ pc' = "pauseMain"
            /\ log' = <<Ev("readKeystore", "", 0, NoName, NoCfg),
                        Ev("pause", "", 0, NoName, NoCfg)>>
       ELSE /\ pc' = "aborted"
            /\ log' = <<Ev("readKeystore", "", 0, NoName, NoCfg),
                        Ev("error", SetupResult(cred, procEnv), 0, NoName, NoCfg)>>
    /\ ipfsDeployments' = ipfsFile
    /\ gelatoDeployments' = gelatoFile
    /\ dIdx' = 1 /\ kIdx' = 1 /\ fIdx' = 1 /\ cIdx' = 1
    /\ UNCHANGED <<keeperVars, script, envVars, gelatoFile, tasks, nextId, oldTasks, cur, listed,
                   deployedFor>>

\* line 120: ENTER is pressed
ConfirmAll ==
    /\ script = "deployAll" /\ pc = "pauseMain"
    /\ pc' = "deploy"
    /\ log' = Append(log, Ev("enter", "", 0, NoName, NoCfg))
    /\ UNCHANGED <<keeperVars, script, envVars, gelatoFile, tasks, nextId, runVars, runs, edited, histVars>>

\* lines 84-96: deploy(w3fName, ..) decides whether the deployment logic runs
DeployDecide ==
    /\ script = "deployAll" /\ pc = "deploy" /\ kIdx <= Len(deployCalls)
    /\ IF SkipDeployment(ipfsDeployments[CurCall.w3fName], gelatoDeployments[CurCall.w3fName])
       THEN /\ log' = Append(log, Ev("skip", CurCall.domain, kIdx, NoName, NoCfg))
            /\ pc' = pc
            /\ kIdx' = kIdx + 1
       ELSE /\ log' = Append(log, Ev("pause", CurCall.domain, kIdx, NoName, NoCfg))
            /\ pc' = "pauseDeploy"
            /\ kIdx' = kIdx
    /\ UNCHANGED <<keeperVars, script, envVars, gelatoFile, tasks, nextId, oldTasks, ipfsDeployments,
                   gelatoDeployments, dIdx, fIdx, cIdx, cur, now, runs, edited, histVars>>

\* line 96: ENTER is pressed, the deployment logic starts
ConfirmDeploy ==
    /\ script = "deployAll" /\ pc = "pauseDeploy"
    /\ pc' = "retireList"
    /\ log' = Append(log, Ev("logic", CurCall.domain, kIdx, NoName, NoCfg))
    /\ UNCHANGED <<keeperVars, script, envVars, gelatoFile, tasks, nextId, runVars, runs, edited, histVars>>

\* lines 227 and 254: the kill-switch logic reads the aggregator of the oracle
\* before it creates its first and its second task; the third, time based, task
\* and the tasks of the other keepers read nothing
ReadsAggregator(w3fName, n) == w3fName = "kill-switch" /\ n \in {1, 2}

\* the call the logic awaits next, at position i of the retirement loop and
\* before its n-th task: cancelTask while tasks are left to retire (line 113),
\* then the oracle's aggregator() or createBatchExecTask
NextCall(i, old, w3fName, n) ==
    IF i <= Len(old) THEN "cancel"
    ELSE IF ReadsAggregator(w3fName, n) THEN "aggregator"
    ELSE "create"

\* lines 107-109: getActiveTasks answers, retirePreviouslyDeployedTasks filters the
\* active tasks
RetireList ==
    /\ script = "deployAll" /\ pc = "retireList"
    /\ \E order \in Orderings(tasksToRetire(ActiveOn(CurCall.domain), CurCall.taskNames, CurTag)) :
          /\ oldTasks' = order
          /\ pc' = NextCall(1, order, CurCall.w3fName, 1)
    /\ log' = Append(log, Ev("list", CurCall.domain, kIdx, NoName, NoCfg))
    /\ cIdx' = 1 /\ fIdx' = 1
    /\ UNCHANGED <<keeperVars, script, envVars, gelatoFile, tasks, nextId, ipfsDeployments,
                   gelatoDeployments, dIdx, kIdx, cur, now, runs, edited, histVars>>

\* line 113: cancelTask of the next task to retire answers with the transaction
RetireTask ==
    /\ script = "deployAll" /\ pc = "cancel" /\ cIdx <= Len(oldTasks)
    /\ pc' = "retireWait"
    /\ log' = Append(log, Ev("cancel", CurCall.domain, oldTasks[cIdx].taskId,
                             oldTasks[cIdx].name, NoCfg))
    /\ UNCHANGED <<keeperVars, script, envVars, gelatoFile, tasks, nextId, runVars, runs, edited, histVars>>

\* line 114: tx.wait() returns, the task is no longer active
RetireConfirmed ==
    /\ script = "deployAll" /\ pc = "retireWait"
    /\ pc' = NextCall(cIdx + 1, oldTasks, CurCall.w3fName, fIdx)
    /\ tasks' = {t \in tasks :
                   ~(t.taskId = oldTasks[cIdx].taskId /\ t.domain = CurCall.domain)}
    /\ log' = Append(log, Ev("cancelled", CurCall.domain, oldTasks[cIdx].taskId,
                             oldTasks[cIdx].name, NoCfg))
    /\ cIdx' = cIdx + 1
    /\ UNCHANGED <<keeperVars, script, envVars, gelatoFile, nextId, oldTasks, ipfsDeployments,
                   gelatoDeployments, dIdx, kIdx, fIdx, cur, now, runs, edited, histVars>>

\* lines 227 and 254: oracle.aggregator() answers; the logic awaits
\* createBatchExecTask
AwaitAggregator ==
    /\ script = "deployAll" /\ pc = "aggregator"
    /\ pc' = "create"
    /\ UNCHANGED <<keeperVars, script, envVars, gelatoFile, tasks, nextId, oldTasks,
                   ipfsDeployments, gelatoDeployments, dIdx, kIdx, fIdx, cIdx, cur, now,
                   log, runs, edited, histVars>>

\* createBatchExecTask of the logic's next task name answers with the task's
\* identifier and the transaction
AllCreateTask ==
    /\ script = "deployAll" /\ pc = "create"
    /\ pc' = "createWait"
    /\ cur' = [name |-> CurCall.taskNames[fIdx] \o CurTag, domain |-> CurCall.domain,
               cid |-> ipfsDeployments[CurCall.w3fName], cfg |-> NoCfg, id |-> nextId]
    /\ nextId' = nextId + 1
    /\ log' = Append(log, Ev("create", CurCall.domain, nextId,
                             CurCall.taskNames[fIdx] \o CurTag, NoCfg))
    /\ UNCHANGED <<keeperVars, script, envVars, gelatoFile, tasks, oldTasks, ipfsDeployments,
                   gelatoDeployments, dIdx, kIdx, fIdx, cIdx, now, runs, edited, histVars>>

\* tx.wait() returns, the task is active
AllCreateConfirmed ==
    /\ script = "deployAll" /\ pc = "createWait"
    /\ pc' = "secrets"
    /\ tasks' = tasks \cup {[taskId |-> cur.id, name |-> cur.name, domain |-> cur.domain,
                             cid |-> cur.cid, secrets |-> FALSE]}
    /\ log' = Append(log, Ev("confirmed", cur.domain, cur.id, cur.name, NoCfg))
    /\ UNCHANGED <<keeperVars, script, envVars, gelatoFile, nextId, runVars, runs, edited, histVars>>

\* secrets.set(.., taskId); then the next task name, or lines 99-102: the
\* deployment is recorded in deployments.json
AllSetSecrets ==
    /\ script = "deployAll" /\ pc = "secrets"
    /\ tasks' = {IF t.taskId = cur.id /\ t.domain = cur.domain
                 THEN [t EXCEPT !.secrets = TRUE] ELSE t : t \in tasks}
    /\ log' = Append(log, Ev("secrets", cur.domain, cur.id, cur.name, NoCfg))
    /\ IF fIdx < Len(CurCall.taskNames)
       THEN /\ fIdx' = fIdx + 1
            /\ pc' = NextCall(cIdx, oldTasks, CurCall.w3fName, fIdx + 1)
       ELSE /\ fIdx' = fIdx /\ pc' = "record"
    /\ UNCHANGED <<keeperVars, script, envVars, gelatoFile, nextId, oldTasks, ipfsDeployments,
                   gelatoDeployments, dIdx, kIdx, cIdx, cur, now, runs, edited, histVars>>

RecordDeployment ==
    /\ script = "deployAll" /\ pc = "record"
    /\ gelatoDeployments' =
          [gelatoDeployments EXCEPT ![CurCall.w3fName] = ipfsDeployments[CurCall.w3fName]]
    /\ gelatoFile' = gelatoDeployments'
    /\ log' = Append(log, Ev("record", CurCall.domain, kIdx, NoName, NoCfg))
    /\ pc' = "deploy"
    /\ kIdx' = kIdx + 1
    /\ UNCHANGED <<keeperVars, script, envVars, tasks, nextId, oldTasks, ipfsDeployments, dIdx, fIdx,
                   cIdx, cur, now, runs, edited, histVars>>

\* the awaited calls of retirePreviouslyDeployedTasks and of a deployment logic
AwaitedCallAll ==
    {"retireList", "cancel", "retireWait", "aggregator", "create", "createWait", "secrets"}

\* the slip of recording the deployment whether or not the logic succeeded
LogicFailsRecorded ==
    /\ script = "deployAll" /\ pc \in AwaitedCallAll
    /\ pc' = "failed"
    /\ gelatoDeployments' =
          [gelatoDeployments EXCEPT ![CurCall.w3fName] = ipfsDeployments[CurCall.w3fName]]
    /\ gelatoFile' = gelatoDeployments'
    /\ log' = Append(log, Ev("failed", pc, 0, NoName, NoCfg))
    /\ UNCHANGED <<keeperVars, script, envVars, tasks, nextId, oldTasks, ipfsDeployments, dIdx,
                   kIdx, fIdx, cIdx, cur, now, runs, edited, histVars>>

\* lines 107, 113-114 and the logic of each keeper: an awaited call (of the SDK, of
\* an oracle contract) rejects; deploy() does not reach writeFileSync, the run ends
\* there.  At "retireList" the call that rejects is getActiveTasks
LogicFails ==
    /\ script = "deployAll" /\ pc \in AwaitedCallAll
    /\ pc' = "failed"
    /\ log' = IF pc = "retireList"
              THEN log \o <<Ev("list", CurCall.domain, kIdx, NoName, NoCfg),
                            Ev("failed", pc, 0, NoName, NoCfg)>>
              ELSE Append(log, Ev("failed", pc, 0, NoName, NoCfg))
    /\ UNCHANGED <<keeperVars, script, envVars, gelatoFile, tasks, nextId, runVars, runs, edited,
                   histVars>>

\* line 392: the run ends
FinishAll ==
    /\ script = "deployAll" /\ pc = "deploy" /\ kIdx > Len(deployCalls)
    /\ pc' = "done"
    /\ log' = Append(log, Ev("close", "", 0, NoName, NoCfg))
    /\ UNCHANGED <<keeperVars, script, envVars, gelatoFile, tasks, nextId, runVars, runs, edited, histVars>>

\* yarn gelato:ipfs <keeper> stores a new address in pre-deployments.json
PublishIpfs ==
    /\ script = "deployAll" /\ pc \in Idle /\ ~edited /\ runs < MaxRuns
    /\ \E w \in AllKeepers, c \in Cids :
          /\ ipfsFile[w] # c
          /\ ipfsFile' = [ipfsFile EXCEPT ![w] = c]
    /\ edited' = TRUE
    /\ UNCHANGED <<keeperVars, script, files, gelatoFile, procEnv, cred, tasks, nextId, pc, runVars,
                   log, runs, histVars>>

(***************************************************************************)
(* deployAll.ts lines 395-509: the freshness keeper.  The handler reads    *)
(* the current rate and the latest block, asks every consumer (forwarder)  *)
(* for the pot data it forwarded last in one batched multi-call, and       *)
(* proposes a refresh call for every consumer it finds stale.  Each await   *)
(* of the handler is a step: the chain may change between two reads, and   *)
(* an awaited call may reject.                                             *)
(***************************************************************************)
MaxRho == 1
MaxMoves == 2

Rates == {1, 2}
Deltas == {0, 1}
OptimismDomains == {"optimism", "base"}
ArbitrumDomains == {"nova", "arbitrum"}

\* an entry of Object.entries(addresses.mainnet.dsrForwarders.<style>)
Address(domain) == <<"0x", domain>>
Entry(domain) == [domain |-> domain, address |-> Address(domain)]

\* lines 403-405: only the forwarder of arbitrum has a destination RPC URL
arbitrumDomainUrls(forwarderAddress) ==
    IF forwarderAddress = Address("arbitrum") THEN "https://arb1.arbitrum.io/rpc"
    ELSE "undefined"

\* the return data of getLastSeenPotData, and decodeFunctionResult(..)[0]
EncodePotData(p) == <<"getLastSeenPotData", p.dsr, p.rho>>
decodeFunctionResult(returnData) == [dsr |-> returnData[2], rho |-> returnData[3]]

\* lines 434-445: one call per consumer, optimism-style first
multicallCalls(optimismStyle, arbitrumStyle) ==
    [i \in 1..(Len(optimismStyle) + Len(arbitrumStyle)) |->
        [target |-> (optimismStyle \o arbitrumStyle)[i].address,
         callData |-> "getLastSeenPotData"]]

\* line 446: multicall.callStatic.aggregate(..).returnData
aggregate(calls, chain) ==
    [i \in 1..Len(calls) |-> EncodePotData(chain[calls[i].target])]

\* lines 454-457 and 484-487
Stale(lastForwardedPotData, dsr, timestamp, delta) ==
    \/ lastForwardedPotData.dsr # dsr
    \/ timestamp > lastForwardedPotData.rho + delta

generateSlackMessageBit(domainAlias) == <<"\n - ", domainAlias>>
generateSlackMessage(messageBits) == <<"Feed refresh to be sent to:">> \o messageBits

RefreshOptimism(forwarderAddress) ==
    [to |-> forwarderAddress, fn |-> "refresh", args |-> <<"gasLimit">>]
RefreshArbitrum(forwarderAddress) ==
    [to |-> forwarderAddress, fn |-> "refresh", args |-> <<"gasLimit", "maxFeePerGas", "baseFee">>]

\* what the two loops carry: the results not consumed yet, the message bits,
\* the calls
LoopState(results, bits, calls) ==
    [multicallResults |-> results, slackMessageBits |-> bits, callsToExecute |-> calls]

\* lines 448-464
RECURSIVE OptimismLoop(_, _, _, _, _, _)
OptimismLoop(entries, i, st, dsr, timestamp, delta) ==
    IF i > Len(entries) THEN st
    ELSE LET lastForwardedPotData == decodeFunctionResult(st.multicallResults[1])
             rest == Tail(st.multicallResults)
         IN  OptimismLoop(entries, i + 1,
                 IF Stale(lastForwardedPotData, dsr, timestamp, delta)
                 THEN LoopState(rest,
                          Append(st.slackMessageBits, generateSlackMessageBit(entries[i].domain)),
                          Append(st.callsToExecute, RefreshOptimism(entries[i].address)))
                 ELSE LoopState(rest, st.slackMessageBits, st.callsToExecute),
                 dsr, timestamp, delta)

\* lines 468-471: the next consumer of the arbitrum loop that has a URL; one
\* without is passed over, its result stays at the head of the list
RECURSIVE NextSupported(_, _)
NextSupported(entries, i) ==
    IF i > Len(entries) THEN i
    ELSE IF arbitrumDomainUrls(entries[i].address) = "undefined"
    THEN NextSupported(entries, i + 1)
    ELSE i

\* lines 477-491: the rest of the loop's body, once the two gas prices are read
ArbitrumBody(entry, st, dsr, timestamp, delta) ==
    LET lastForwardedPotData == decodeFunctionResult(st.multicallResults[1])
        rest == Tail(st.multicallResults)
    IN  IF Stale(lastForwardedPotData, dsr, timestamp, delta)
        THEN LoopState(rest,
                 Append(st.slackMessageBits, generateSlackMessageBit(entry.domain)),
                 Append(st.callsToExecute, RefreshArbitrum(entry.address)))
        ELSE LoopState(rest, st.slackMessageBits, st.callsToExecute)

\* the handler's locals: the two values read first, the state of the loops, the
\* position of the arbitrum loop
Locals(dsr, timestamp, st, i) ==
    [currentDsr |-> dsr, latestTimestamp |-> timestamp, loop |-> st, aIdx |-> i]
NoLocals == Locals(0, 0, LoopState(<<>>, <<>>, <<>>), 1)

NoResult == [canExec |-> FALSE, message |-> "", callData |-> <<>>, slack |-> <<>>]

\* lines 494-508: what the handler returns; slack is the message sent, <<>> for none
Result(st, sent) ==
    IF Len(st.callsToExecute) = 0
    THEN [canExec |-> FALSE, message |-> "Pot data refresh not needed",
          callData |-> <<>>, slack |-> <<>>]
    ELSE [canExec |-> TRUE, message |-> "", callData |-> st.callsToExecute,
          slack |-> IF sent THEN generateSlackMessage(st.slackMessageBits) ELSE <<>>]

\* lines 468-508 from the arbitrum loop's position i on, up to the next await:
\* the gas prices of the next consumer with a URL, the notification, or the end
Continue(st, i) ==
    LET j == NextSupported(arbitrumStyleForwarderAddresses, i)
    IN  /\ locals' = Locals(locals.currentDsr, locals.latestTimestamp, st, j)
        /\ IF j <= Len(arbitrumStyleForwarderAddresses)
           THEN pc' = "baseFee" /\ onRunResult' = onRunResult
           ELSE IF Len(st.callsToExecute) # 0 /\ sendSlackMessages
           THEN pc' = "slack" /\ onRunResult' = onRunResult
           ELSE pc' = "done" /\ onRunResult' = Result(st, FALSE)

\* the platform runs the handler, which awaits secrets.get (line 416)
OnRun ==
    /\ script = "dsr-oracle" /\ pc = "idle"
    /\ pc' = "secrets"
    /\ UNCHANGED <<deployVars, keeperVars>>

\* line 416 answers; the handler awaits pot.dsr()
SecretsGet ==
    /\ script = "dsr-oracle" /\ pc = "secrets"
    /\ pc' = "dsr"
    /\ UNCHANGED <<deployVars, keeperVars>>

\* line 428 answers; the handler awaits provider.getBlock('latest')
PotDsr ==
    /\ script = "dsr-oracle" /\ pc = "dsr"
    /\ locals' = [locals EXCEPT !.currentDsr = currentDsr]
    /\ pc' = "block"
    /\ UNCHANGED <<deployVars, userArgs, chainVars, onRunResult>>

\* line 429 answers; lines 431-446, the handler awaits the aggregate call
GetBlock ==
    /\ script = "dsr-oracle" /\ pc = "block"
    /\ locals' = [locals EXCEPT !.latestTimestamp = latestTimestamp]
    /\ pc' = "aggregate"
    /\ UNCHANGED <<deployVars, userArgs, chainVars, onRunResult>>

\* line 446 answers; lines 448-471, the optimism loop and the arbitrum loop up to
\* its first await
Aggregate ==
    /\ script = "dsr-oracle" /\ pc = "aggregate"
    /\ LET returnData == aggregate(multicallCalls(optimismStyleForwarderAddresses,
                                                  arbitrumStyleForwarderAddresses), potData)
       IN  Continue(OptimismLoop(optimismStyleForwarderAddresses, 1,
                                 LoopState(returnData, <<>>, <<>>),
                                 locals.currentDsr, locals.latestTimestamp, maxDelta), 1)
    /\ UNCHANGED <<deployVars, userArgs, chainVars>>

\* line 474 answers; the handler awaits arbitrumProvider.getGasPrice()
GetBaseFee ==
    /\ script = "dsr-oracle" /\ pc = "baseFee"
    /\ pc' = "maxFeePerGas"
    /\ UNCHANGED <<deployVars, keeperVars>>

\* line 475 answers; lines 477-492, then the loop goes on
GetMaxFeePerGas ==
    /\ script = "dsr-oracle" /\ pc = "maxFeePerGas"
    /\ Continue(ArbitrumBody(arbitrumStyleForwarderAddresses[locals.aIdx], locals.loop,
                             locals.currentDsr, locals.latestTimestamp, maxDelta),
                locals.aIdx + 1)
    /\ UNCHANGED <<deployVars, userArgs, chainVars>>

\* line 502 answers: the notification is sent, the handler returns
SendMessageToSlack ==
    /\ script = "dsr-oracle" /\ pc = "slack"
    /\ onRunResult' = Result(locals.loop, TRUE)
    /\ pc' = "done"
    /\ UNCHANGED <<deployVars, userArgs, chainVars, locals>>

\* an awaited call rejects: nothing in the handler catches it, the handler
\* rejects with no result
Awaited == {"secrets", "dsr", "block", "aggregate", "baseFee", "maxFeePerGas", "slack"}

AwaitRejects ==
    /\ script = "dsr-oracle" /\ pc \in Awaited
    /\ pc' = "rejected"
    /\ UNCHANGED <<deployVars, keeperVars>>

\* The chain goes on while the handler awaits.  A change before the first read
\* is a different first state, one after the last read is not seen: the changes
\* that count fall between the answer of pot.dsr() and that of the aggregate call.
BetweenReads == {"block", "aggregate"}

\* the rate of the pot is changed
DsrChanges ==
    /\ script = "dsr-oracle" /\ pc \in BetweenReads /\ moves < MaxMoves
    /\ \E r \in Rates \ {currentDsr} : currentDsr' = r
    /\ moves' = moves + 1
    /\ UNCHANGED <<deployVars, pc, userArgs, potData, latestTimestamp, locals, onRunResult>>

\* a block is mined
NewBlock ==
    /\ script = "dsr-oracle" /\ pc \in BetweenReads /\ moves < MaxMoves
    /\ latestTimestamp' = latestTimestamp + 1
    /\ moves' = moves + 1
    /\ UNCHANGED <<deployVars, pc, userArgs, potData, currentDsr, locals, onRunResult>>

\* a refresh sent earlier reaches a consumer, which now holds the current data
ForwarderRefreshed ==
    /\ script = "dsr-oracle" /\ pc \in BetweenReads /\ moves < MaxMoves
    /\ \E i \in 1..Len(optimismStyleForwarderAddresses \o arbitrumStyleForwarderAddresses) :
          LET a == (optimismStyleForwarderAddresses \o arbitrumStyleForwarderAddresses)[i].address
          IN  /\ potData[a] # [dsr |-> currentDsr, rho |-> MaxRho]
              /\ potData' = [potData EXCEPT ![a] = [dsr |-> currentDsr, rho |-> MaxRho]]
    /\ moves' = moves + 1
    /\ UNCHANGED <<deployVars, pc, userArgs, currentDsr, latestTimestamp, locals, onRunResult>>

(***************************************************************************)
(* Initial states: the inputs of the first run.                            *)
(***************************************************************************)
Keepers == {w3fNames[i] : i \in 1..Len(w3fNames)}

Cred(pk, ks, pw, good) ==
    [privateKey |-> pk, keystorePath |-> ks, passwordPath |-> pw, keystoreGood |-> good]

Creds == {Cred(TRUE, TRUE, TRUE, TRUE), Cred(FALSE, TRUE, TRUE, TRUE),
          Cred(FALSE, TRUE, TRUE, FALSE), Cred(FALSE, TRUE, FALSE, TRUE),
          Cred(FALSE, FALSE, FALSE, TRUE)}

Dir(a, b) == [dir |-> TRUE, cfg |-> (JsonFile("a") :> a @@ JsonFile("b") :> b)]
NoDir == [dir |-> FALSE, cfg |-> (JsonFile("a") :> NoFile @@ JsonFile("b") :> NoFile)]

\* the credential settings are varied with one set of files, the files with one
\* credential setting
InitRaws == Raws \ {RawTimePad}

InitDeploy ==
    /\ script = "deploy"
    /\ \E a1 \in InitRaws \cup {NoFile}, k2 \in {NoDir} \cup {Dir(a2, NoFile) : a2 \in {NoFile, RawTime, RawEvent, RawNoEnv}} :
          /\ files = ("cap-automator" :> Dir(a1, NoFile) @@ "d3m-ticker" :> k2)
          /\ \/ cred = Cred(FALSE, TRUE, TRUE, TRUE)
             \/ /\ cred \in Creds
                /\ a1 = RawTime /\ k2 = Dir(RawEvent, NoFile)
    /\ ipfsFile = ("cap-automator" :> "QmA" @@ "d3m-ticker" :> "QmA")
    /\ gelatoFile = <<>>
    /\ procEnv = {"SLACK_WEBHOOK_URL"}
    /\ gelatoDeployments = <<>>
    /\ now = IsoDate(0)

\* deployAll.ts: at most two keeper types have a published address, nothing is
\* deployed yet; the settings are varied with one pre-deployments.json
AllSettings == {requiredSettings[i] : i \in 1..Len(requiredSettings)}

InitAll ==
    /\ script = "deployAll"
    /\ files = ("cap-automator" :> NoDir @@ "d3m-ticker" :> NoDir)
    /\ \E published \in SUBSET AllKeepers :
          /\ Cardinality(published) <= 2
          /\ ipfsFile = [w \in AllKeepers |-> IF w \in published THEN "QmA" ELSE NoCid]
          /\ \/ /\ cred = Cred(FALSE, TRUE, TRUE, TRUE)
                /\ procEnv = AllSettings
             \/ /\ published = {"cap-automator"}
                /\ \/ /\ cred \in {Cred(FALSE, TRUE, TRUE, FALSE), Cred(FALSE, FALSE, FALSE, TRUE)}
                      /\ procEnv = AllSettings
                   \/ /\ cred = Cred(FALSE, TRUE, TRUE, TRUE)
                      /\ \E missing \in AllSettings : procEnv = AllSettings \ {missing}
    /\ gelatoFile = [w \in AllKeepers |-> NoCid]
    /\ gelatoDeployments = gelatoFile
    /\ now = IsoDate(0)

\* the consumers of each style, in any order, and the chain as the handler
\* finds it; a consumer that is not configured holds the current data
RECURSIVE SeqsOver(_)
SeqsOver(S) ==
    {<<>>} \cup UNION {{<<Entry(d)>> \o rest : rest \in SeqsOver(S \ {d})} : d \in S}

Configured(optimismStyle, arbitrumStyle) ==
    {(optimismStyle \o arbitrumStyle)[i].address :
        i \in 1..(Len(optimismStyle) + Len(arbitrumStyle))}

InitChain ==
    /\ optimismStyleForwarderAddresses \in SeqsOver(OptimismDomains)
    /\ arbitrumStyleForwarderAddresses \in SeqsOver(ArbitrumDomains)
    /\ currentDsr \in Rates
    /\ maxDelta \in Deltas
    /\ latestTimestamp \in MaxRho..(MaxRho + 2)
    /\ sendSlackMessages \in BOOLEAN
    /\ potData \in [{Address(d) : d \in OptimismDomains \cup ArbitrumDomains} ->
                      [dsr : Rates, rho : 0..MaxRho]]
    /\ \A d \in OptimismDomains \cup ArbitrumDomains :
          Address(d) \notin Configured(optimismStyleForwarderAddresses,
                                       arbitrumStyleForwarderAddresses)
             => potData[Address(d)] = [dsr |-> currentDsr, rho |-> MaxRho]

\* the scripts run with no keeper handler in sight
NoChain ==
    /\ optimismStyleForwarderAddresses = <<>>
    /\ arbitrumStyleForwarderAddresses = <<>>
    /\ currentDsr = 1 /\ maxDelta = 0 /\ latestTimestamp = MaxRho
    /\ sendSlackMessages = FALSE
    /\ potData = [a \in {Address(d) : d \in OptimismDomains \cup ArbitrumDomains} |->
                     [dsr |-> 1, rho |-> MaxRho]]

InitRun ==
    /\ tasks = {} /\ nextId = 1
    /\ pc = "idle"
    /\ oldTasks = <<>>
    /\ ipfsDeployments = ipfsFile
    /\ dIdx = 1 /\ kIdx = 1 /\ fIdx = 1 /\ cIdx = 1
    /\ cur = [name |-> NoName, domain |-> "", cid |-> NoCid, cfg |-> NoCfg, id |-> 0]
    /\ log = <<>>
    /\ runs = 0 /\ edited = FALSE /\ sameAsPrev = FALSE
    /\ listed = {}
    /\ deployedFor = [s \in Slots |-> NoTask]
    /\ failedRun = NoFailure
    /\ moves = 0
    /\ locals = NoLocals
    /\ onRunResult = NoResult

\* the handler before it runs: no script, no file, no task
KeeperInit ==
    /\ script = "dsr-oracle"
    /\ files = ("cap-automator" :> NoDir @@ "d3m-ticker" :> NoDir)
    /\ ipfsFile = ("cap-automator" :> NoCid @@ "d3m-ticker" :> NoCid)
    /\ gelatoFile = <<>> /\ gelatoDeployments = <<>>
    /\ procEnv = {"SLACK_WEBHOOK_URL"}
    /\ cred = Cred(FALSE, FALSE, FALSE, FALSE)
    /\ now = IsoDate(0)
    /\ InitChain
    /\ InitRun

KeeperNext ==
    \/ OnRun \/ SecretsGet \/ PotDsr \/ GetBlock \/ Aggregate \/ GetBaseFee
    \/ GetMaxFeePerGas \/ SendMessageToSlack \/ AwaitRejects
    \/ DsrChanges \/ NewBlock \/ ForwarderRefreshed

KeeperSpec == KeeperInit /\ [][KeeperNext]_vars

Init ==
    /\ InitDeploy \/ InitAll
    /\ NoChain
    /\ InitRun

Next ==
    \/ StartDeploy \/ ListTasks \/ NextKeeper \/ ProcessConfig \/ Confirm
    \/ CreateTask \/ CreateConfirmed \/ SetSecrets \/ CancelTask \/ CancelConfirmed
    \/ TxFails \/ Finish \/ EditConfig \/ EditIpfs \/ EditEnv
    \/ StartAll \/ ConfirmAll \/ DeployDecide \/ ConfirmDeploy \/ RetireList
    \/ RetireTask \/ RetireConfirmed \/ AwaitAggregator \/ AllCreateTask
    \/ AllCreateConfirmed
    \/ AllSetSecrets \/ RecordDeployment \/ LogicFails \/ FinishAll \/ PublishIpfs

Spec == Init /\ [][Next]_vars

(***************************************************************************)
(* Vocabulary of the properties.                                           *)
(***************************************************************************)
SdkTx == {"create", "secrets", "cancel"}
SdkCalls == {"list", "create", "confirmed", "secrets", "cancel", "cancelled"}

LogHas(ops) == \E i \in 1..Len(log) : log[i].op \in ops
LastEvent == log[Len(log)]

\* a config the reconciler deploys: its keeper has a config directory and a
\* published address, its domain and trigger type are supported
FilePresent(s) == files[s[1]].dir /\ files[s[1]].cfg[s[2]] # NoFile
RawOf(s) == files[s[1]].cfg[s[2]]
RawSupported(raw) ==
    /\ raw.domain \in {"mainnet", "gnosis"}
    /\ raw.trigger.type \in {"block", "cron", "event", "time"}
ValidConfig(s) ==
    /\ FilePresent(s)
    /\ ipfsFile[s[1]] # NoCid
    /\ RawSupported(RawOf(s))
NameOf(s) == DeploymentName(s[2], RawOf(s), ipfsFile[s[1]])
DesiredNames == {NameOf(s) : s \in {x \in Slots : ValidConfig(x)}}
ActiveNames == {t.name : t \in tasks}

\* the run of deploy.ts has ended without error, and no file has changed since
DeployDone == script = "deploy" /\ pc = "done" /\ ~edited

(***************************************************************************)
(* C1. Idempotence of the reconciler: a run that follows a completed run   *)
(* with the config files, the content addresses and the active tasks       *)
(* unchanged issues no create-task and no cancel-task transaction.         *)
(* Violated: two config files of two keeper types with the same file name, *)
(* the same bytes and the same content address derive one task name; the   *)
(* working set holds one entry per name, so the second of them creates a   *)
(* task again in every run.                                                *)
(***************************************************************************)
C1_Idempotence ==
    (script = "deploy" /\ sameAsPrev) => ~LogHas({"create", "cancel"})

(***************************************************************************)
(* C2. Reconciliation agreement: when a run completes without error, the   *)
(* set of active task names equals the set of names derived from the valid *)
(* local configs.  Violated: of several active tasks with one name the     *)
(* working set keeps one, so the others are never cancelled.               *)
(***************************************************************************)
C2_Agreement == DeployDone => ActiveNames = DesiredNames

(***************************************************************************)
(* C3. A matching task is left untouched: a task that the run's listing    *)
(* returned and whose name is the derived name of a valid local config     *)
(* stays active and unchanged to the end of the run, no create-task,       *)
(* secrets-set or cancel-task call of the run names its identifier, and    *)
(* the config found already active issues no create-task and no            *)
(* secrets-set call.                                                       *)
(***************************************************************************)
C3_MatchedUntouched ==
    (script = "deploy" /\ ~edited) =>
        /\ \A t \in listed :
              t.name \in DesiredNames =>
                 /\ t \in tasks
                 /\ \A i \in 1..Len(log) :
                       log[i].op \in SdkCalls \ {"list"} => log[i].id # t.taskId
        /\ \A i \in 1..Len(log) :
              log[i].op = "active" =>
                 \A j \in 1..Len(log) :
                    log[j].op \in {"create", "secrets"} => log[j].cfg # log[i].cfg

\* a run has ended that found a listed task already active
C3_Witness ==
    /\ DeployDone
    /\ \E t \in listed : t.name \in DesiredNames /\ t \in tasks
    /\ LogHas({"active"})
    /\ LogHas({"cancelled"})

(***************************************************************************)
(* C4. Config change forces redeployment.  A task was created for a        *)
(* config by an earlier completed run, and the bytes of the file or the    *)
(* content address of its keeper have changed since.                       *)
(* As claimed: the derived name changes, and the next completed run        *)
(* creates a task with the new name and cancels the task created for the   *)
(* config.  Violated, for one when the changed bytes name an unsupported   *)
(* domain: the config is then skipped and nothing is created.              *)
(***************************************************************************)
Changed(s) ==
    /\ deployedFor[s] # NoTask
    /\ FilePresent(s)
    /\ ipfsFile[s[1]] # NoCid
    /\ RawOf(s) # deployedFor[s].raw \/ ipfsFile[s[1]] # deployedFor[s].cid

\* the step that ends a run of deploy.ts without error
RunCompletes == script = "deploy" /\ pc = "cancel" /\ pc' = "done"

C4_ChangeRedeploys ==
    [][RunCompletes =>
         \A s \in Slots :
            Changed(s) =>
               /\ NameOf(s) # deployedFor[s].name
               /\ \E i \in 1..Len(log) : log[i].op = "create" /\ log[i].name = NameOf(s)
               /\ \E i \in 1..Len(log) :
                     log[i].op = "cancelled" /\ log[i].id = deployedFor[s].id]_vars

(***************************************************************************)
(* C4 as amended: the derived name changes; if the changed config is still *)
(* valid, then after the next completed run a task with the new name is    *)
(* active, created by that run unless the listing already returned one,    *)
(* and a task with the old name, if the listing returned one, has been     *)
(* cancelled unless a valid config still derives the old name.             *)
(***************************************************************************)
C4_ChangeRedeploysValid ==
    [][RunCompletes =>
         \A s \in Slots :
            Changed(s) =>
               /\ NameOf(s) # deployedFor[s].name
               /\ ValidConfig(s) =>
                     /\ NameOf(s) \in ActiveNames
                     /\ \/ \E i \in 1..Len(log) :
                              log[i].op = "confirmed" /\ log[i].name = NameOf(s)
                        \/ \E t \in listed : t.name = NameOf(s)
                     /\ (/\ deployedFor[s].name \notin DesiredNames
                         /\ \E t \in listed : t.name = deployedFor[s].name) =>
                           /\ \E i \in 1..Len(log) :
                                 log[i].op = "cancelled" /\ log[i].name = deployedFor[s].name
                           /\ \E t \in listed \ tasks : t.name = deployedFor[s].name]_vars

\* a completed run has replaced the task of a changed config
C4_Witness ==
    /\ DeployDone
    /\ \E s \in Slots :
          /\ ValidConfig(s)
          /\ deployedFor[s] # NoTask
          /\ deployedFor[s].name = NameOf(s)
          /\ \E i \in 1..Len(log) :
                log[i].op = "confirmed" /\ log[i].cfg = s /\ log[i].name = NameOf(s)
          /\ \E t \in listed \ tasks :
                /\ ConfigName(s[2]) = SubSeq(t.name, 1, Len(ConfigName(s[2])))
                /\ \E i \in 1..Len(log) : log[i].op = "cancelled" /\ log[i].id = t.taskId

(***************************************************************************)
(* C5. Unsupported domain is skipped: handling a config whose domain is    *)
(* not a supported network, or whose trigger type is not a supported       *)
(* variant, makes no call of the vendor SDK, changes neither the working   *)
(* set nor the tasks, and the run continues with the next config; no       *)
(* create-task or secrets-set call of a run is for such a config.          *)
(***************************************************************************)
Unsupported(raw) ==
    \/ raw.domain \notin {"mainnet", "gnosis"}
    \/ raw.trigger.type \notin {"block", "cron", "event", "time"}

C5_UnsupportedSkipped ==
    [][script = "deploy" =>
         /\ (pc = "config" /\ Unsupported(CurRaw)) =>
               /\ tasks' = tasks /\ nextId' = nextId /\ oldTasks' = oldTasks
               /\ pc' \in {"config", "keeper"}
               /\ <<kIdx', fIdx'>> # <<kIdx, fIdx>>
               /\ Len(log') = Len(log) + 1
               /\ log'[Len(log')].op \in {"skipDomain", "skipTrigger"}
         /\ \A i \in 1..Len(log') :
               log'[i].op \in {"pause", "create", "confirmed", "secrets"} =>
                  ~Unsupported(files[log'[i].cfg[1]].cfg[log'[i].cfg[2]])]_vars

\* a run skipped a config of an unsupported domain and created a task for a later one
C5_Witness ==
    /\ script = "deploy"
    /\ \E i, j \in 1..Len(log) :
          /\ i < j
          /\ log[i].op = "skipDomain"
          /\ log[j].op = "create"

\* the same for an unsupported trigger type
C5_WitnessTrigger ==
    /\ script = "deploy"
    /\ \E i, j \in 1..Len(log) :
          /\ i < j
          /\ log[i].op = "skipTrigger"
          /\ log[j].op = "create"

(***************************************************************************)
(* C6. Missing secret raises before any transaction.                       *)
(* As claimed: the reconciler raises for every (valid) config that         *)
(* references a secret whose environment variable is absent, so no run     *)
(* completes with such a config, and when it raises no create-task or      *)
(* secrets-set call was made for the config.  Violated: a config whose     *)
(* task is already active is skipped before its secrets are resolved.      *)
(***************************************************************************)
SecretMissing(raw) == \E envVarName \in raw.secrets : envVarName \notin procEnv

SecretError == pc = "aborted" /\ Len(log) > 0 /\ LastEvent.op = "error"
               /\ LastEvent.domain = "secret"

NoCallFor(lg, cfg) ==
    \A i \in 1..Len(lg) : lg[i].op \in {"create", "confirmed", "secrets"} => lg[i].cfg # cfg

C6_MissingSecretRaises ==
    /\ DeployDone => ~\E s \in Slots : ValidConfig(s) /\ SecretMissing(RawOf(s))
    /\ (script = "deploy" /\ SecretError) => NoCallFor(log, LastEvent.cfg)

(***************************************************************************)
(* C6 as amended: handling a supported config that references a secret     *)
(* whose environment variable is absent raises, with no create-task or     *)
(* secrets-set call made for that config, when the working set of the run  *)
(* holds no entry under the config's derived name at that moment: no       *)
(* listed task has the name, or a config handled earlier in the run had    *)
(* the same derived name and removed the entry.  The error is the missing  *)
(* variable's unless the trigger fails to translate first.  When the       *)
(* working set holds an entry under the name the config is skipped and     *)
(* nothing is raised.                                                      *)
(***************************************************************************)
TriggerTranslates(raw) == ~(raw.trigger.type = "event" /\ ~raw.trigger.abiFound)
InWorkingSet == \E i \in 1..Len(oldTasks) : oldTasks[i].name = CurName

C6_MissingSecretRaisesUnlessActive ==
    [][(script = "deploy" /\ pc = "config" /\ ~Unsupported(CurRaw) /\ SecretMissing(CurRaw)) =>
         /\ ~InWorkingSet =>
               /\ pc' = "aborted"
               /\ log'[Len(log')].op = "error"
               /\ TriggerTranslates(CurRaw) => log'[Len(log')].domain = "secret"
               /\ log'[Len(log')].cfg = CurCfg
               /\ NoCallFor(log', CurCfg)
               /\ tasks' = tasks /\ nextId' = nextId
         /\ InWorkingSet =>
               /\ pc' \in {"config", "keeper"}
               /\ log'[Len(log')].op = "active"
               /\ tasks' = tasks]_vars

\* a run has raised for a missing secret although a task with the config's
\* derived name was listed: an earlier config of the run had the same name
C6_Witness ==
    /\ script = "deploy" /\ SecretError /\ LogHas({"list"})
    /\ \E t \in listed : t.name = LastEvent.name

(***************************************************************************)
(* C7. Per-config failure isolation: an error raised while handling one    *)
(* config (missing secret, ABI or event lookup failure) does not end the   *)
(* run.  Violated: the loop body has no handler, the error ends the run    *)
(* with the remaining configs unprocessed and nothing cancelled.           *)
(***************************************************************************)
C7_FailureIsolated ==
    script = "deploy" =>
        ~(pc = "aborted" /\ Len(log) > 0 /\ LastEvent.op = "error" /\ LastEvent.cfg # NoCfg)

(***************************************************************************)
(* C8. Credential and setup failures abort before any network call: with   *)
(* no usable key (deploy.ts), or with an unreadable keystore or a missing  *)
(* required setting (deployAll.ts), every run aborts and has made no task  *)
(* listing, create-task, secrets-set or cancel-task call; with an explicit *)
(* private key deploy.ts does not read the keystore.                       *)
(***************************************************************************)
NoKey == ~cred.privateKey /\ ~(cred.keystorePath /\ cred.passwordPath /\ cred.keystoreGood)
BadSetup ==
    \/ ~(cred.keystorePath /\ cred.keystoreGood)
    \/ \E v \in {"GELATO_KEEPERS_SLACK_WEBHOOK_URL", "GELATO_KEEPERS_ETHERSCAN_API_KEY",
                 "MAINNET_RPC_URL", "GNOSIS_CHAIN_RPC_URL"} : v \notin procEnv

C8_SetupAborts ==
    /\ (script = "deploy" /\ NoKey /\ runs > 0) =>
          pc = "aborted" /\ ~LogHas(SdkCalls) /\ tasks = {}
    /\ (script = "deployAll" /\ BadSetup /\ runs > 0) =>
          pc = "aborted" /\ ~LogHas(SdkCalls) /\ tasks = {}
    /\ (script = "deploy" /\ cred.privateKey) => ~LogHas({"readKeystore"})

\* deploy.ts has aborted for want of a key
C8_Witness ==
    /\ script = "deploy" /\ NoKey /\ pc = "aborted"
    /\ LastEvent.op = "error"

\* deployAll.ts has aborted for a missing setting; deploy.ts runs on an explicit key
C8_WitnessAll == script = "deployAll" /\ BadSetup /\ pc = "aborted" /\ LastEvent.op = "error"
C8_WitnessKey == script = "deploy" /\ cred.privateKey /\ LogHas({"create"})

(***************************************************************************)
(* C9. deployAll.ts skip rule: a keeper whose published address is         *)
(* undefined, or equal to the address recorded as last deployed, is        *)
(* skipped by deploy() with no task and no record changed; any other       *)
(* keeper waits for the operator, and every call and record of a keeper    *)
(* follows the operator's confirmation for it; a run that follows a        *)
(* completed run with neither file changed makes no transaction.           *)
(***************************************************************************)
Gate == {"skip", "pause", "logic", "record", "error", "close"}

\* the last event of lg[1..i-1] that opens or closes a keeper's deployment
RECURSIVE LastGate(_, _)
LastGate(lg, i) ==
    IF i <= 1 THEN "none"
    ELSE IF lg[i - 1].op \in Gate THEN lg[i - 1].op
    ELSE LastGate(lg, i - 1)

ConfirmedFirst(lg) ==
    \A i \in 1..Len(lg) :
        lg[i].op \in SdkCalls \cup {"record"} => LastGate(lg, i) = "logic"

C9_SkipRule ==
    [][script = "deployAll" =>
         /\ (pc = "deploy" /\ kIdx <= Len(deployCalls)) =>
               LET w == CurCall.w3fName IN
               IF ipfsFile[w] = NoCid \/ ipfsFile[w] = gelatoFile[w]
               THEN /\ pc' = "deploy" /\ kIdx' = kIdx + 1
                    /\ log'[Len(log')].op = "skip"
                    /\ tasks' = tasks /\ gelatoFile' = gelatoFile /\ nextId' = nextId
               ELSE /\ pc' = "pauseDeploy" /\ kIdx' = kIdx
                    /\ tasks' = tasks /\ gelatoFile' = gelatoFile /\ nextId' = nextId
         /\ ConfirmedFirst(log')
         /\ sameAsPrev' => ~\E i \in 1..Len(log') : log'[i].op \in SdkTx \cup {"record"}]_vars

\* a second run over unchanged files has completed, skipping deployed keepers
C9_Witness ==
    /\ script = "deployAll" /\ sameAsPrev /\ pc = "done"
    /\ tasks # {}
    /\ \E w \in AllKeepers : gelatoFile[w] # NoCid /\ gelatoFile[w] = ipfsFile[w]
    /\ LogHas({"skip"})

\* a changed keeper has been redeployed after the confirmation
C9_WitnessDeployed ==
    /\ script = "deployAll" /\ runs = 2 /\ pc = "done" /\ LogHas({"record"}) /\ LogHas({"skip"})

(***************************************************************************)
(* C10. Retire-before-create: when deployAll.ts creates a task named N     *)
(* (plus the tag of the run) on a network, no task is active on that       *)
(* network whose name is N followed by a suffix of the tag length; and it  *)
(* cancels only active tasks of that network whose name without its last   *)
(* tag-length characters is a task name of the keeper being redeployed.    *)
(***************************************************************************)
TagLength == 22

Tagged(name, N) ==
    Len(name) = Len(N) + TagLength /\ SubSeq(name, 1, Len(N)) = N

C10_RetireBeforeCreate ==
    [][script = "deployAll" =>
         /\ (pc = "create" /\ pc' = "createWait") =>
               /\ Len(CurTag) = TagLength
               /\ log'[Len(log')].op = "create"
               /\ Tagged(log'[Len(log')].name, CurCall.taskNames[fIdx])
               /\ ~\E t \in tasks :
                     t.domain = CurCall.domain /\ Tagged(t.name, CurCall.taskNames[fIdx])
         /\ (pc = "cancel" /\ pc' = "retireWait") =>
               /\ log'[Len(log')].op = "cancel"
               /\ \E t \in tasks :
                     /\ t.taskId = log'[Len(log')].id /\ t.name = log'[Len(log')].name
                     /\ t.domain = CurCall.domain
               /\ \E i \in 1..Len(CurCall.taskNames) :
                     Tagged(log'[Len(log')].name, CurCall.taskNames[i])]_vars

\* a task of an earlier run was cancelled, then its successor created
C10_Witness ==
    /\ script = "deployAll"
    /\ \E i, j \in 1..Len(log) :
          /\ i < j /\ log[i].op = "cancelled" /\ log[j].op = "create"
          /\ log[i].name # log[j].name
          /\ \E k \in 1..Len(deployCalls), n \in 1..3 :
                /\ n <= Len(deployCalls[k].taskNames)
                /\ Tagged(log[i].name, deployCalls[k].taskNames[n])
                /\ Tagged(log[j].name, deployCalls[k].taskNames[n])

(***************************************************************************)
(* Vocabulary of the freshness keeper's properties.                        *)
(***************************************************************************)
\* the handler has returned, and the chain held still while it ran: what it
\* read is what the chain holds
Returned == script = "dsr-oracle" /\ pc = "done" /\ moves = 0

Consumers ==
    Configured(optimismStyleForwarderAddresses, arbitrumStyleForwarderAddresses)

\* stale by the consumer's own data on the chain
StaleOnChain(a) ==
    \/ potData[a].dsr # currentDsr
    \/ latestTimestamp > potData[a].rho + maxDelta

CallsTo(a) == {i \in 1..Len(onRunResult.callData) : onRunResult.callData[i].to = a}

(***************************************************************************)
(* C11. Staleness decision of the freshness keeper: with a consumer whose  *)
(* last-seen rate equals the current rate and whose last update is within  *)
(* maxDelta (equality included), and no other stale consumer, the handler  *)
(* returns canExec false; with the same consumer's last update older than  *)
(* maxDelta the result has canExec true and exactly one call, which        *)
(* targets that consumer.  Violated for an arbitrum-style consumer that    *)
(* follows one without a URL: it is judged by the other's data.            *)
(***************************************************************************)
C11_StalenessDecision ==
    Returned =>
        \A a \in Consumers :
            (\A b \in Consumers \ {a} : ~StaleOnChain(b)) =>
                /\ (potData[a].dsr = currentDsr /\ latestTimestamp <= potData[a].rho + maxDelta)
                      => ~onRunResult.canExec /\ onRunResult.callData = <<>>
                /\ (potData[a].dsr = currentDsr /\ latestTimestamp > potData[a].rho + maxDelta)
                      => /\ onRunResult.canExec
                         /\ Len(onRunResult.callData) = 1
                         /\ onRunResult.callData[1].to = a

(***************************************************************************)
(* C12. One proposed call per stale consumer: the returned bundle holds    *)
(* exactly one call for each stale consumer and none for a consumer that   *)
(* is not stale; the handler reports no action only when no consumer is    *)
(* stale.  Violated: see C19.                                              *)
(***************************************************************************)
C12_OneCallPerStale ==
    Returned =>
        /\ \A a \in Consumers :
              Cardinality(CallsTo(a)) = IF StaleOnChain(a) THEN 1 ELSE 0
        /\ ~onRunResult.canExec => \A a \in Consumers : ~StaleOnChain(a)

(***************************************************************************)
(* C19. Result alignment in the freshness keeper: the decision for each    *)
(* consumer the handler decides on (every optimism-style consumer, every   *)
(* arbitrum-style consumer with a destination URL) is the staleness of the *)
(* result requested for that same consumer, also when an arbitrum-style    *)
(* consumer without a URL comes before it; and the notification lists      *)
(* exactly the consumers a call is proposed for, in the same order.        *)
(* Violated: the consumer without a URL is passed over before its result   *)
(* is dropped, the next consumer is judged by that result.                 *)
(***************************************************************************)
AllEntries == optimismStyleForwarderAddresses \o arbitrumStyleForwarderAddresses

Decided(i) ==
    \/ i <= Len(optimismStyleForwarderAddresses)
    \/ AllEntries[i].address = Address("arbitrum")

C19_ResultAlignment ==
    Returned =>
        /\ \A i \in 1..Len(AllEntries) :
              Decided(i) =>
                 (CallsTo(AllEntries[i].address) # {} <=> StaleOnChain(AllEntries[i].address))
        /\ onRunResult.slack # <<>> =>
              /\ Len(onRunResult.slack) = Len(onRunResult.callData) + 1
              /\ \A k \in 1..Len(onRunResult.callData) :
                    \E i \in 1..Len(AllEntries) :
                       /\ AllEntries[i].address = onRunResult.callData[k].to
                       /\ onRunResult.slack[k + 1] = <<"\n - ", AllEntries[i].domain>>

(***************************************************************************)
(* C13. Create, confirm, then set secrets: in both scripts the secrets-set *)
(* call of a task comes after the confirmation of its create-task          *)
(* transaction, as a call of its own (the task is active without secrets   *)
(* in between), and before the create-task transaction of any later task   *)
(* of the run.                                                             *)
(***************************************************************************)
Scripts == {"deploy", "deployAll"}

C13_CreateConfirmSecrets ==
    script \in Scripts =>
        /\ \A k \in 1..Len(log) :
              log[k].op = "secrets" =>
                 \E i, j \in 1..Len(log) :
                    /\ i < j /\ j < k
                    /\ log[i].op = "create" /\ log[j].op = "confirmed"
                    /\ log[i].id = log[k].id /\ log[j].id = log[k].id
                    /\ log[i].domain = log[k].domain
                    /\ \A x \in (i + 1)..(k - 1) : log[x].op # "create"
        /\ \A i, j \in 1..Len(log) :
              (i < j /\ log[i].op = "create" /\ log[j].op = "create") =>
                 \E k \in (i + 1)..(j - 1) : log[k].op = "secrets" /\ log[k].id = log[i].id
        /\ pc = "secrets" =>
              \E t \in tasks : t.taskId = cur.id /\ t.domain = cur.domain /\ ~t.secrets

\* a run of deployAll.ts created two tasks, each with its secrets set before the next
C13_Witness ==
    /\ script = "deployAll" /\ pc = "done"
    /\ \E i, j \in 1..Len(log) :
          /\ i < j /\ log[i].op = "create" /\ log[j].op = "create"
          /\ \E k \in (i + 1)..(j - 1) : log[k].op = "secrets"

\* the same for deploy.ts
C13_WitnessDeploy ==
    /\ script = "deploy" /\ pc = "done"
    /\ \E i, j \in 1..Len(log) :
          /\ i < j /\ log[i].op = "create" /\ log[j].op = "create"
          /\ \E k \in (i + 1)..(j - 1) : log[k].op = "secrets"

(***************************************************************************)
(* C14. Phase ordering of a run of deploy.ts: every supported network has  *)
(* been listed before the first create-task transaction, every create-task *)
(* transaction comes before the first cancel-task transaction, and at most *)
(* one transaction awaits its confirmation at any moment.                  *)
(***************************************************************************)
Awaiting ==
    {i \in 1..Len(log) :
        /\ log[i].op \in {"create", "cancel"}
        /\ ~\E k \in (i + 1)..Len(log) :
              log[k].op \in {"confirmed", "cancelled", "failed"}}

C14_PhaseOrdering ==
    script = "deploy" =>
        /\ \A i \in 1..Len(log) :
              log[i].op = "create" =>
                 /\ \A d \in {"mainnet", "gnosis"} :
                       \E j \in 1..(i - 1) : log[j].op = "list" /\ log[j].domain = d
                 /\ \A j \in (i + 1)..Len(log) : log[j].op # "list"
        /\ \A i, j \in 1..Len(log) :
              (log[i].op = "cancel" /\ log[j].op = "create") => j < i
        /\ Cardinality(Awaiting) <= 1
        /\ \A i, j \in 1..Len(log) :
              (i < j /\ log[i].op \in {"create", "cancel"} /\ log[j].op \in SdkTx) =>
                 \E k \in (i + 1)..(j - 1) :
                    log[k].op \in {"confirmed", "cancelled"} /\ log[k].id = log[i].id

\* a run listed, created and then cancelled two tasks
C14_Witness ==
    /\ script = "deploy" /\ pc = "done"
    /\ LogHas({"create"})
    /\ \E i, j \in 1..Len(log) : i < j /\ log[i].op = "cancel" /\ log[j].op = "cancel"

(***************************************************************************)
(* C15. Confirmation gate before each state-changing action: in deploy.ts  *)
(* and deployAll.ts every create-task and every cancel-task transaction    *)
(* follows an ENTER of its own, pressed after the previous create or       *)
(* cancel.  Violated: deploy.ts cancels without asking, deployAll.ts asks  *)
(* once for all retirements and creations of a keeper type.                *)
(***************************************************************************)
C15_ConfirmationGate ==
    script \in Scripts =>
        \A j \in 1..Len(log) :
            log[j].op \in {"create", "cancel"} =>
                \E i \in 1..(j - 1) :
                    /\ log[i].op \in {"enter", "logic"}
                    /\ \A x \in (i + 1)..(j - 1) : log[x].op \notin {"create", "cancel"}

(***************************************************************************)
(* C16. Deployed-state file is written only after success (deployAll.ts):  *)
(* the entry of a keeper type in deployments.json changes only when its    *)
(* whole deployment logic has finished (the retirements, then a created,   *)
(* confirmed task with its secrets set for every task name), and it        *)
(* becomes the published address; when an SDK call ends the logic the      *)
(* file is left as it is, with the entries recorded earlier in the run;    *)
(* the run after it skips the keeper types recorded earlier and repeats    *)
(* the failed one from its retirement step.                                *)
(***************************************************************************)
\* the events of the deployment logic in progress
SinceLogic(lg) ==
    LET starts == {i \in 1..Len(lg) : lg[i].op = "logic"}
        last == CHOOSE i \in starts : \A j \in starts : j <= i
    IN  IF starts = {} THEN <<>> ELSE SubSeq(lg, last, Len(lg))

LogicComplete(lg, call, tag) ==
    LET part == SinceLogic(lg) IN
    /\ part # <<>>
    /\ \A x \in 1..Len(part) : part[x].op # "failed"
    /\ \A x \in 1..Len(part) :
          part[x].op = "cancel" => \E y \in (x + 1)..Len(part) :
                                       part[y].op = "cancelled" /\ part[y].id = part[x].id
    /\ \A n \in 1..Len(call.taskNames) :
          \E x, y, z \in 1..Len(part) :
             /\ x < y /\ y < z
             /\ part[x].op = "create" /\ part[y].op = "confirmed" /\ part[z].op = "secrets"
             /\ part[x].name = call.taskNames[n] \o tag
             /\ part[y].id = part[x].id /\ part[z].id = part[x].id

C16_RecordedAfterSuccess ==
    [][script = "deployAll" =>
         /\ gelatoFile' # gelatoFile =>
               /\ LogicComplete(log, CurCall, CurTag)
               /\ gelatoFile' = [gelatoFile EXCEPT ![CurCall.w3fName] = ipfsFile[CurCall.w3fName]]
               /\ \A n \in 1..Len(CurCall.taskNames) :
                     \E t \in tasks : /\ t.name = CurCall.taskNames[n] \o CurTag
                                      /\ t.domain = CurCall.domain /\ t.secrets
         /\ pc' = "failed" =>
               /\ gelatoFile' = gelatoFile
               /\ gelatoFile'[CurCall.w3fName] # ipfsFile[CurCall.w3fName]
               /\ \A i \in 1..Len(log) :
                     log[i].op = "record" =>
                        gelatoFile'[deployCalls[log[i].id].w3fName]
                           = ipfsFile[deployCalls[log[i].id].w3fName]
         /\ failedRun'.at # "" =>
               /\ \A i \in 1..Len(log') :
                     (log'[i].op \in {"pause", "logic"} /\ log'[i].id > 0) =>
                        log'[i].id \notin failedRun'.recorded
               /\ (kIdx' > failedRun'.kIdx \/ pc' = "done") =>
                     \E i \in 1..(Len(log') - 1) :
                        /\ log'[i].op = "logic" /\ log'[i].id = failedRun'.kIdx
                        /\ log'[i + 1].op = "list"]_vars

\* the run after a failed one skipped what that had recorded and redeployed the rest
C16_Witness ==
    /\ script = "deployAll" /\ pc = "done"
    /\ failedRun.at = "secrets" /\ failedRun.recorded # {}
    /\ \E i \in 1..Len(log) : log[i].op = "skip" /\ log[i].id \in failedRun.recorded
    /\ \E i \in 1..Len(log) : log[i].op = "record" /\ log[i].id = failedRun.kIdx
    /\ LogHas({"cancelled"})

(***************************************************************************)
(* C17. Exclusive association of config and task (deploy.ts): after        *)
(* completed runs from an empty task set, no two active tasks carry the    *)
(* same derived name, and every valid config has exactly one active task   *)
(* of its name, also when two config files of different keeper types have  *)
(* the same file name, bytes and content address.  Violated: the two files *)
(* derive one name, and the first run creates a task for each.             *)
(***************************************************************************)
C17_ExclusiveAssociation ==
    (script = "deploy" /\ pc = "done" /\ failedRun.at = "") =>
        /\ \A t1, t2 \in tasks : t1.name = t2.name => t1 = t2
        /\ ~edited =>
              \A s \in Slots :
                 ValidConfig(s) => Cardinality({t \in tasks : t.name = NameOf(s)}) = 1

(***************************************************************************)
(* C18. Unrecovered window between creation and secret-setting (deploy.ts):*)
(* when a run stops between the confirmation of a task's creation and its  *)
(* secrets-set call, the task stays active without secrets; the run after  *)
(* it, over unchanged files, makes no create-task, secrets-set or          *)
(* cancel-task call for that task, finds a task of its name already active *)
(* when it completes, and the task is still active without secrets; and    *)
(* in no run does a task without secrets get them other than by the        *)
(* secrets-set call that follows the confirmation of its own creation.     *)
(***************************************************************************)
StoppedBeforeSecrets == script = "deploy" /\ failedRun.at = "secrets"

LeftWithoutSecrets ==
    /\ (script = "deploy" /\ pc = "failed" /\ LastEvent.domain = "secrets") =>
          \E t \in tasks : t.taskId = cur.id /\ t.domain = cur.domain /\ ~t.secrets
    /\ StoppedBeforeSecrets =>
          /\ \E t \in tasks :
                /\ t.taskId = failedRun.cur.id /\ t.domain = failedRun.cur.domain
                /\ t.name = failedRun.cur.name
                /\ ~t.secrets
          /\ \A i \in 1..Len(log) :
                log[i].op \in SdkTx \cup {"confirmed", "cancelled"}
                   => log[i].id # failedRun.cur.id
          /\ pc = "done" =>
                \E i \in 1..Len(log) :
                   log[i].op = "active" /\ log[i].name = failedRun.cur.name

SecretsOnlyAfterOwnCreation ==
    script = "deploy" =>
        \A t \in tasks, u \in tasks' :
            (~t.secrets /\ u.taskId = t.taskId /\ u.domain = t.domain /\ u.secrets) =>
                /\ pc = "secrets" /\ cur.id = t.taskId
                /\ LastEvent.op = "confirmed" /\ LastEvent.id = t.taskId

C18_UnrecoveredWindow == []LeftWithoutSecrets /\ [][SecretsOnlyAfterOwnCreation]_vars

\* the run after the stopped one has completed: it found the name active, and the
\* task is still there without secrets
C18_Witness ==
    /\ StoppedBeforeSecrets /\ pc = "done"
    /\ \E t \in tasks : t.taskId = failedRun.cur.id /\ ~t.secrets
    /\ \E i \in 1..Len(log) : log[i].op = "active" /\ log[i].name = failedRun.cur.name

====
